---- MODULE Spec2Model ----
(***************************************************************************)
(* Model of the MSAL React / Python OBO / Azure AI Search demo.            *)
(*                                                                         *)
(*  - spa  : the Home component (pages/Home.jsx) with utils/ApiCall.js:    *)
(*           its React state, the position of each running handler and,   *)
(*           per run, the calls it made to acquireTokenSilent and fetch.   *)
(*  - twin : a second Home component fed the same inputs, whose decoded    *)
(*           access-token claims may differ (used by TwinSpec only).       *)
(*  - api  : one request being handled by the Python API (app.py), as      *)
(*           excerpted in documentation/AUTHFLOW_SUMMARY.md and            *)
(*           documentation/QUERY-TIME_ACCESS_CONTROL.md.                   *)
(***************************************************************************)
EXTENDS Integers, Sequences, FiniteSets, TLC

VARIABLES spa, twin, api

vars == <<spa, twin, api>>

-----------------------------------------------------------------------------
(* JavaScript null / undefined and a present value.                        *)
None == {}
Some(x) == {x}
Get(v) == CHOOSE x \in v : TRUE

(* Longest search query typed into the text field, in characters.          *)
MaxQueryLen == 1

(* Most '.'-separated segments of a string handed to parseJwt.             *)
MaxSegments == 4

-----------------------------------------------------------------------------
(* Strings that the code searches or builds are sequences of words.        *)

\* String.prototype.includes
includes(message, word) == \E i \in 1..Len(message) : message[i] = word

ConsentCode == "AADSTS65001"

NoActiveAccountOboMessage ==
    <<"No active account! Verify a user has been signed in and setActiveAccount has been called.">>
OboConsentText ==
    <<"Consent required: Please grant admin consent in Azure Portal for the Python API permission, or log out and log back in to consent.">>
SearchConsentText ==
    <<"Consent required: Please grant admin consent in Azure Portal for AI Search permission.">>
NoActiveAccountSearchMessage == <<"No active account. Please sign in.">>
EnterQueryMessage == <<"Please enter a search query">>
FailedSearchMessage == <<"Failed to perform search">>

\* Errors acquireTokenSilent rejects with (MSAL AuthError: "<code>: <text>").
AcquireErrors ==
    { <<"interaction_required:", ConsentCode, "consent is required">>,
      <<"interaction_required:", "AADSTS50058", "token expired and cannot be renewed">> }

\* The TypeError fetch rejects with when the request cannot be made.
NetworkErrors == { <<"Failed to fetch">> }

\* The SyntaxError response.json() rejects with.
JsonSyntaxError == <<"Unexpected token < in JSON">>
\* The TypeError of reading a property of null.
NullPropertyError == <<"Cannot read properties of null (reading 'error')">>

-----------------------------------------------------------------------------
(* Configuration (config.js, authConfig.js).                               *)

PYTHON_API_CONFIG ==
    [ baseUrl |-> "http://localhost:5000",
      scope   |-> "api://<YOUR_API_CLIENT_ID>/access_as_user" ]

API_ENDPOINTS ==
    [ hello  |-> <<PYTHON_API_CONFIG.baseUrl, "/api/hello">>,
      search |-> <<PYTHON_API_CONFIG.baseUrl, "/api/search-unified">> ]

GRAPH_CONFIG == [ scopes |-> <<"User.Read">> ]

loginRequest == [ scopes |-> GRAPH_CONFIG.scopes ]

\* Variant: the API token is requested with the scopes of the login.
apiRequest_LoginScopes == [ scopes |-> GRAPH_CONFIG.scopes ]

apiRequest == [ scopes |-> <<PYTHON_API_CONFIG.scope>> ]

pythonApiConfig == [ endpoint |-> API_ENDPOINTS.hello ]

-----------------------------------------------------------------------------
(* Access tokens: a JWT is the sequence of its '.'-separated segments.     *)

\* What a segment is: whether atob, decodeURIComponent and JSON.parse
\* accept it, the JSON value it decodes to, and whether that value's exp is
\* earlier than the current time.
SegInfo(seg) ==
    CASE seg = "pA"       -> [b64 |-> TRUE,  utf8 |-> TRUE,  json |-> TRUE,  value |-> "claimsA",   expired |-> FALSE]
      [] seg = "pB"       -> [b64 |-> TRUE,  utf8 |-> TRUE,  json |-> TRUE,  value |-> "claimsB",   expired |-> FALSE]
      [] seg = "pOld"     -> [b64 |-> TRUE,  utf8 |-> TRUE,  json |-> TRUE,  value |-> "claimsOld", expired |-> TRUE]
      [] seg = "hdr"      -> [b64 |-> TRUE,  utf8 |-> TRUE,  json |-> TRUE,  value |-> "header",    expired |-> FALSE]
      [] seg = "pBadJson" -> [b64 |-> TRUE,  utf8 |-> TRUE,  json |-> FALSE, value |-> "none",      expired |-> FALSE]
      [] seg = "pBadUtf8" -> [b64 |-> TRUE,  utf8 |-> FALSE, json |-> FALSE, value |-> "none",      expired |-> FALSE]
      [] OTHER            -> [b64 |-> FALSE, utf8 |-> FALSE, json |-> FALSE, value |-> "none",      expired |-> FALSE]

\* Tokens acquireTokenSilent can resolve with.
AccessTokens == { <<"hdr", "pA", "sig">>, <<"hdr", "pB", "sig">> }

Accounts == { "user@contoso.com" }

\* Any value handed to parseJwt: a string, as the sequence of its segments
\* (a string has at least one), or, as the empty sequence, undefined.
Segments == { "hdr", "pA", "pOld", "pBadJson", "!", "sig" }

RawTokens == UNION { [1..n -> Segments] : n \in 0..MaxSegments }

\* How a function call completes: by returning a value or by throwing.
Return(v) == [ completion |-> "return", value |-> v ]
Throw == [ completion |-> "throw", value |-> None ]

\* Variant: the token is decoded only when it has exactly three segments.
parseJwtTry_ThreeSegments(token) ==
    IF Len(token) # 3 THEN Throw
    ELSE LET p == SegInfo(token[2])
         IN  IF p.b64 /\ p.utf8 /\ p.json THEN Return(Some(p.value)) ELSE Throw

\* The try block of parseJwt.  token.split throws for undefined,
\* base64Url.replace throws when there is no second segment, then atob,
\* decodeURIComponent and JSON.parse each throw on what they cannot decode.
parseJwtTry(token) ==
    IF Len(token) = 0 THEN Throw
    ELSE IF Len(token) < 2 THEN Throw
    ELSE LET p == SegInfo(token[2])
         IN  IF ~p.b64 THEN Throw
             ELSE IF ~p.utf8 THEN Throw
             ELSE IF ~p.json THEN Throw
             ELSE Return(Some(p.value))

\* Variant: parseJwt has no catch block.
parseJwt_NoCatch(token) == parseJwtTry(token)

\* Home.jsx parseJwt: try { ... } catch (e) { return null; }
parseJwt(token) ==
    IF parseJwtTry(token).completion = "throw" THEN Return(None) ELSE parseJwtTry(token)

-----------------------------------------------------------------------------
(* HTTP responses seen by the SPA.                                         *)

NoField == None

DataObject(err, auth, info) ==
    [ t |-> "object", error |-> err, authentication |-> auth, search_token_info |-> info ]
DataNull ==
    [ t |-> "null", error |-> NoField, authentication |-> "", search_token_info |-> FALSE ]

\* The state a setter is left with when given a parsed JSON value: null for
\* the JSON value null.
Nullable(data) == IF data.t = "null" THEN None ELSE Some(data)

\* A body is JSON text (valid, with its parsed value) or something else.
JsonBody(d) == [ valid |-> TRUE, data |-> d ]
HtmlBody == [ valid |-> FALSE, data |-> DataNull ]

StatusDigits(status) ==
    CASE status = 200 -> "200" [] status = 401 -> "401"
      [] status = 405 -> "405" [] OTHER -> "500"

statusTextOf(status) ==
    CASE status = 200 -> "OK" [] status = 401 -> "UNAUTHORIZED"
      [] status = 405 -> "METHOD NOT ALLOWED" [] OTHER -> "INTERNAL SERVER ERROR"

\* Response.ok
ok(response) == response.status >= 200 /\ response.status <= 299

Response(st, b) == [ status |-> st, statusText |-> statusTextOf(st), body |-> b ]

\* The responses the Python API is given to answer with.
Responses ==
    { Response(200, JsonBody(DataObject(NoField, "OBO Flow", TRUE))),
      Response(200, JsonBody(DataNull)),
      Response(200, HtmlBody),
      Response(500, JsonBody(DataObject(Some(<<"OBO token acquisition failed:", ConsentCode>>), "", FALSE))),
      Response(500, JsonBody(DataObject(Some(<< >>), "", FALSE))),
      Response(401, JsonBody(DataNull)),
      Response(405, HtmlBody) }

-----------------------------------------------------------------------------
(* The Home component.                                                     *)

Chars == { " ", "a" }

Queries == UNION { [1..n -> Chars] : n \in 0..MaxQueryLen }

IsSpace(c) == c = " "

RECURSIVE TrimStart(_)
TrimStart(q) ==
    IF q # << >> /\ IsSpace(Head(q)) THEN TrimStart(Tail(q)) ELSE q

RECURSIVE TrimEnd(_)
TrimEnd(q) ==
    IF q # << >> /\ IsSpace(q[Len(q)]) THEN TrimEnd(SubSeq(q, 1, Len(q) - 1)) ELSE q

\* Variant: the query is tested as typed.
trim_Nothing(q) == q

\* String.prototype.trim
trim(q) == TrimEnd(TrimStart(q))

IdleRun ==
    [ pc |-> "idle", account |-> None, accessToken |-> None, acquires |-> 0,
      acquireScopes |-> << >>, fetches |-> 0, request |-> None, response |-> None,
      query |-> << >>, caught |-> None, outcome |-> "none" ]

InitialHome ==
    [ accessTokenClaims |-> None,
      loading           |-> FALSE,
      oboLoading        |-> FALSE,
      oboResponse       |-> None,
      oboError          |-> None,
      searchQuery       |-> << >>,
      searchResults     |-> None,
      searchError       |-> None,
      searchLoading     |-> FALSE,
      searchTokenClaims |-> None ]

InitialSpa ==
    [ home |-> InitialHome, token |-> IdleRun, obo |-> IdleRun, search |-> IdleRun ]

\* instance.acquireTokenSilent({...request, account}) is called by a run.
acquireTokenSilent(run, request, account) ==
    [ run EXCEPT !.pc = "awaitToken",
                 !.acquires = @ + 1,
                 !.acquireScopes = request.scopes ]

-----------------------------------------------------------------------------
(* handleRequestAccessToken (Home.jsx).                                    *)

\* Variant: the loading flag is raised before the account is looked at.
handleRequestAccessToken_LoadingFirst(s, account) ==
    IF account # None
    THEN [ s EXCEPT !.home.loading = TRUE,
                    !.token = acquireTokenSilent(
                                  [IdleRun EXCEPT !.account = account],
                                  apiRequest, account) ]
    ELSE [ s EXCEPT !.home.loading = TRUE,
                    !.token = [IdleRun EXCEPT !.outcome = "noAccount"] ]

handleRequestAccessToken(s, account) ==
    IF account # None
    THEN [ s EXCEPT !.home.loading = TRUE,
                    !.token = acquireTokenSilent(
                                  [IdleRun EXCEPT !.account = account],
                                  apiRequest, account) ]
    ELSE [ s EXCEPT !.token = [IdleRun EXCEPT !.outcome = "noAccount"] ]

\* Variant: a failed token request also clears what the search showed.
tokenCatch_ResetsSearch(s, message) ==
    [ s EXCEPT !.home.loading = FALSE,
               !.home.searchResults = None,
               !.home.searchError = None,
               !.token.pc = "idle",
               !.token.outcome = "error" ]

\* .catch(error => ...)
tokenCatch(s, message) ==
    [ s EXCEPT !.home.loading = FALSE,
               !.token.pc = "idle",
               !.token.outcome = "error" ]

\* Variant: the claims of an expired token are not kept.
tokenThen_DropsExpired(s, accessToken) ==
    LET claims == parseJwt(accessToken)
        got == [ s EXCEPT !.token.accessToken = Some(accessToken) ]
    IN  IF claims.completion = "throw"
        THEN tokenCatch(got, <<"parseJwt threw">>)
        ELSE [ got EXCEPT !.home.accessTokenClaims =
                              IF claims.value # None /\ SegInfo(accessToken[2]).expired
                              THEN None ELSE claims.value,
                          !.home.loading = FALSE,
                          !.token.pc = "idle",
                          !.token.outcome = "ok" ]

\* .then(response => ...): an exception thrown in it rejects the promise
\* that .catch handles.
tokenThen(s, accessToken) ==
    LET claims == parseJwt(accessToken)
        got == [ s EXCEPT !.token.accessToken = Some(accessToken) ]
    IN  IF claims.completion = "throw"
        THEN tokenCatch(got, <<"parseJwt threw">>)
        ELSE [ got EXCEPT !.home.accessTokenClaims = claims.value,
                          !.home.loading = FALSE,
                          !.token.pc = "idle",
                          !.token.outcome = "ok" ]

-----------------------------------------------------------------------------
(* callPythonOboApi (utils/ApiCall.js) and handleCallOboApi (Home.jsx).    *)

\* Variant: the signature segment is lost when the header is built.
bearer_DropsSignature(accessToken) ==
    <<"Bearer ">> \o SubSeq(accessToken, 1, Len(accessToken) - 1)

\* `Bearer ${accessToken}`
bearer(accessToken) == <<"Bearer ">> \o accessToken

oboOptions(accessToken) ==
    [ url           |-> pythonApiConfig.endpoint,
      method        |-> "GET",
      Authorization |-> bearer(accessToken),
      ContentType   |-> None,
      body          |-> None ]

\* fetch(url, options) is called by a run.
fetch(run, request) ==
    [ run EXCEPT !.pc = "awaitFetch",
                 !.fetches = @ + 1,
                 !.request = Some(request) ]

\* ApiCall.js lines 29-41: the part of callPythonOboApi after the token is known.
oboSend(run, accessToken) ==
    fetch([run EXCEPT !.accessToken = Some(accessToken)], oboOptions(accessToken))

\* Variant: acquireTokenSilent is not awaited, the request goes out at once
\* with the token still undefined.
callPythonOboApi_MissingAwait(run, accessToken, account) ==
    IF account = None
    THEN [ run EXCEPT !.pc = "thrown" ]
    ELSE fetch(acquireTokenSilent([run EXCEPT !.account = account], apiRequest, account),
               oboOptions(<<"undefined">>))

\* ApiCall.js lines 12-27: the run after the synchronous part of
\* callPythonOboApi(accessToken); pc = "thrown" when it threw.
callPythonOboApi(run, accessToken, account) ==
    IF accessToken # None
    THEN oboSend(run, Get(accessToken))
    ELSE IF account = None
         THEN [ run EXCEPT !.pc = "thrown" ]
         ELSE acquireTokenSilent([run EXCEPT !.account = account], apiRequest, account)

\* The message handleCallOboApi's catch block shows for a caught error.
oboErrorShown(message) ==
    IF message # << >> /\ includes(message, ConsentCode)
    THEN OboConsentText
    ELSE message

\* catch (error) { ... } of handleCallOboApi
oboCatch(s, message) ==
    [ s EXCEPT !.home.oboError = Some(oboErrorShown(message)),
               !.home.oboLoading = FALSE,
               !.obo.pc = "idle",
               !.obo.caught = Some(message),
               !.obo.outcome = "error" ]

\* Variant: the call is given the token the last token request received.
handleCallOboApi_ReusesToken(s, account) ==
    LET started == [ s EXCEPT !.home.oboLoading = TRUE,
                              !.home.oboError = None,
                              !.home.oboResponse = None,
                              !.obo = callPythonOboApi(IdleRun, s.token.accessToken, account) ]
    IN  IF started.obo.pc = "thrown"
        THEN oboCatch(started, NoActiveAccountOboMessage)
        ELSE started

\* Variant: the error of the previous run is left in place.
handleCallOboApi_KeepsError(s, account) ==
    LET started == [ s EXCEPT !.home.oboLoading = TRUE,
                              !.home.oboResponse = None,
                              !.obo = callPythonOboApi(IdleRun, None, account) ]
    IN  IF started.obo.pc = "thrown"
        THEN oboCatch(started, NoActiveAccountOboMessage)
        ELSE started

handleCallOboApi(s, account) ==
    LET started == [ s EXCEPT !.home.oboLoading = TRUE,
                              !.home.oboError = None,
                              !.home.oboResponse = None,
                              !.obo = callPythonOboApi(IdleRun, None, account) ]
    IN  IF started.obo.pc = "thrown"
        THEN oboCatch(started, NoActiveAccountOboMessage)
        ELSE started

\* Variant: the request is sent only when the page holds decoded claims.
oboTokenResolved_ClaimsGate(s, accessToken) ==
    IF s.home.accessTokenClaims = None
    THEN oboCatch(s, <<"No claims">>)
    ELSE [ s EXCEPT !.obo = oboSend(@, accessToken) ]

\* acquireTokenSilent resolved inside callPythonOboApi.
oboTokenResolved(s, accessToken) ==
    [ s EXCEPT !.obo = oboSend(@, accessToken) ]

\* Variant: the message does not hold the status code.
httpErrorMessage_NoStatus(response) ==
    <<"HTTP", "error", ":", response.statusText>>

\* `HTTP ${response.status}: ${response.statusText}`
httpErrorMessage(response) ==
    <<"HTTP", StatusDigits(response.status), ":", response.statusText>>

\* Variant: a 401 or 403 response ends the run with an outcome of its own.
oboFetchThen_AuthKind(s, response) ==
    IF response.status \in { 401, 403 }
    THEN [ oboCatch([s EXCEPT !.obo.response = Some(response)], httpErrorMessage(response))
             EXCEPT !.obo.outcome = "authFailure" ]
    ELSE IF ~ok(response)
    THEN oboCatch([s EXCEPT !.obo.response = Some(response)], httpErrorMessage(response))
    ELSE [ s EXCEPT !.obo.response = Some(response), !.obo.pc = "awaitJson" ]

\* .then(response => ...) of callPythonOboApi
oboFetchThen(s, response) ==
    IF ~ok(response)
    THEN oboCatch([s EXCEPT !.obo.response = Some(response)], httpErrorMessage(response))
    ELSE [ s EXCEPT !.obo.response = Some(response), !.obo.pc = "awaitJson" ]

\* response.json() resolved: the rest of handleCallOboApi's try block.
oboJsonThen(s, data) ==
    [ s EXCEPT !.home.oboResponse = Nullable(data),
               !.home.oboLoading = FALSE,
               !.obo.pc = "idle",
               !.obo.outcome = "ok" ]

-----------------------------------------------------------------------------
(* handleAISearch (Home.jsx).                                              *)

searchOptions(accessToken, searchQuery) ==
    [ url           |-> API_ENDPOINTS.search,
      method        |-> "POST",
      Authorization |-> bearer(accessToken),
      ContentType   |-> Some("application/json"),
      body          |-> Some([query |-> searchQuery]) ]

\* The message handleAISearch's catch block shows for a caught error.
searchErrorShown(message) ==
    IF message # << >> /\ includes(message, ConsentCode)
    THEN SearchConsentText
    ELSE message

\* Variant: a consent failure of the token acquisition is tried again.
searchCatch_Retry(s, message) ==
    IF includes(message, ConsentCode) /\ s.search.accessToken = None
    THEN [ s EXCEPT !.search = acquireTokenSilent(@, apiRequest, @.account) ]
    ELSE [ s EXCEPT !.home.searchError = Some(searchErrorShown(message)),
                    !.home.searchLoading = FALSE,
                    !.search.pc = "idle",
                    !.search.caught = Some(message),
                    !.search.outcome = "error" ]

\* catch (error) { ... } of handleAISearch
searchCatch(s, message) ==
    [ s EXCEPT !.home.searchError = Some(searchErrorShown(message)),
               !.home.searchLoading = FALSE,
               !.search.pc = "idle",
               !.search.caught = Some(message),
               !.search.outcome = "error" ]

\* Variant: the handler does not raise its loading flag.
handleAISearch_NoLoadingFlag(s, account) ==
    IF account = None
    THEN [ s EXCEPT !.home.searchError = Some(NoActiveAccountSearchMessage),
                    !.search = [IdleRun EXCEPT !.outcome = "noAccount"] ]
    ELSE IF trim(s.home.searchQuery) = << >>
    THEN [ s EXCEPT !.home.searchError = Some(EnterQueryMessage),
                    !.search = [IdleRun EXCEPT !.account = account,
                                               !.outcome = "noQuery"] ]
    ELSE [ s EXCEPT !.home.searchError = None,
                    !.home.searchResults = None,
                    !.search = acquireTokenSilent(
                                   [IdleRun EXCEPT !.account = account,
                                                   !.query = s.home.searchQuery],
                                   apiRequest, account) ]

handleAISearch(s, account) ==
    IF account = None
    THEN [ s EXCEPT !.home.searchError = Some(NoActiveAccountSearchMessage),
                    !.search = [IdleRun EXCEPT !.outcome = "noAccount"] ]
    ELSE IF trim(s.home.searchQuery) = << >>
    THEN [ s EXCEPT !.home.searchError = Some(EnterQueryMessage),
                    !.search = [IdleRun EXCEPT !.account = account,
                                               !.outcome = "noQuery"] ]
    ELSE [ s EXCEPT !.home.searchLoading = TRUE,
                    !.home.searchError = None,
                    !.home.searchResults = None,
                    !.search = acquireTokenSilent(
                                   [IdleRun EXCEPT !.account = account,
                                                   !.query = s.home.searchQuery],
                                   apiRequest, account) ]

\* acquireTokenSilent resolved: fetch(API_ENDPOINTS.search, ...) is called.
searchTokenResolved(s, accessToken) ==
    [ s EXCEPT !.search = fetch([@ EXCEPT !.accessToken = Some(accessToken)],
                                searchOptions(accessToken, s.search.query)) ]

\* fetch resolved: result.json() is called.
searchFetchThen(s, response) ==
    [ s EXCEPT !.search.response = Some(response), !.search.pc = "awaitJson" ]

\* Variant: data.error is shown as it is, with no default text.
searchFailureText_NoDefault(data) ==
    IF data.error # NoField THEN Get(data.error) ELSE << >>

\* data.error || 'Failed to perform search'
searchFailureText(data) ==
    IF data.error # NoField /\ Get(data.error) # << >>
    THEN Get(data.error)
    ELSE FailedSearchMessage

\* Variant: the exception of reading data.error of null is not caught, the
\* run ends where it was thrown.
searchJsonThen_UncaughtNull(s, data) ==
    LET result == Get(s.search.response)
    IN  IF ok(result)
        THEN [ s EXCEPT !.home.searchResults = Nullable(data),
                        !.home.searchLoading = FALSE,
                        !.search.pc = "idle",
                        !.search.outcome = "ok" ]
        ELSE IF data.t = "null"
        THEN [ s EXCEPT !.search.pc = "idle",
                        !.search.caught = Some(NullPropertyError),
                        !.search.outcome = "error" ]
        ELSE [ s EXCEPT !.home.searchError = Some(searchFailureText(data)),
                        !.home.searchLoading = FALSE,
                        !.search.pc = "idle",
                        !.search.outcome = "failed" ]

\* result.json() resolved: lines 157-165.
searchJsonThen(s, data) ==
    LET result == Get(s.search.response)
    IN  IF ok(result)
        THEN [ s EXCEPT !.home.searchResults = Nullable(data),
                        !.home.searchLoading = FALSE,
                        !.search.pc = "idle",
                        !.search.outcome = "ok" ]
        ELSE IF data.t = "null"
        THEN searchCatch(s, NullPropertyError)
        ELSE [ s EXCEPT !.home.searchError = Some(searchFailureText(data)),
                        !.home.searchLoading = FALSE,
                        !.search.pc = "idle",
                        !.search.outcome = "failed" ]

-----------------------------------------------------------------------------
(* The "Compare Tokens" button and the search text field.                  *)

\* onClick={() => setSearchTokenClaims({...})}
compareTokens(s) ==
    [ s EXCEPT !.home.searchTokenClaims =
                   Some([search |-> Get(s.home.searchResults).search_token_info]) ]

\* onChange={(e) => setSearchQuery(e.target.value)}
setSearchQuery(s, q) == [ s EXCEPT !.home.searchQuery = q ]

-----------------------------------------------------------------------------
(* Steps of the page.  A step applies a handler or a continuation to spa;  *)
(* with lock it applies the same one, with the same inputs, to twin.       *)

Apply(F(_), lock) ==
    /\ spa' = F(spa)
    /\ twin' = IF lock THEN F(twin) ELSE twin
    /\ UNCHANGED api

MaybeAccounts == { None } \cup { Some(a) : a \in Accounts }

TypeQuery(lock) ==
    \E q \in Queries :
        /\ q # spa.home.searchQuery
        /\ Apply(LAMBDA s : setSearchQuery(s, q), lock)

\* <Button onClick={handleRequestAccessToken} disabled={loading}>
ClickRequestAccessToken(lock) ==
    /\ ~spa.home.loading
    /\ \E account \in MaybeAccounts :
           Apply(LAMBDA s : handleRequestAccessToken(s, account), lock)

TokenAcquired(lock) ==
    /\ spa.token.pc = "awaitToken"
    /\ \E accessToken \in AccessTokens :
           Apply(LAMBDA s : tokenThen(s, accessToken), lock)

TokenAcquireFailed(lock) ==
    /\ spa.token.pc = "awaitToken"
    /\ \E error \in AcquireErrors :
           Apply(LAMBDA s : tokenCatch(s, error), lock)

\* <Button onClick={handleCallOboApi} disabled={oboLoading}>
ClickCallOboApi(lock) ==
    /\ ~spa.home.oboLoading
    /\ \E account \in MaybeAccounts :
           Apply(LAMBDA s : handleCallOboApi(s, account), lock)

OboTokenAcquired(lock) ==
    /\ spa.obo.pc = "awaitToken"
    /\ \E accessToken \in AccessTokens :
           Apply(LAMBDA s : oboTokenResolved(s, accessToken), lock)

OboTokenAcquireFailed(lock) ==
    /\ spa.obo.pc = "awaitToken"
    /\ \E error \in AcquireErrors :
           Apply(LAMBDA s : oboCatch(s, error), lock)

OboFetchResolved(lock) ==
    /\ spa.obo.pc = "awaitFetch"
    /\ \E response \in Responses :
           Apply(LAMBDA s : oboFetchThen(s, response), lock)

OboFetchRejected(lock) ==
    /\ spa.obo.pc = "awaitFetch"
    /\ \E error \in NetworkErrors :
           Apply(LAMBDA s : oboCatch(s, error), lock)

OboJsonResolved(lock) ==
    /\ spa.obo.pc = "awaitJson"
    /\ Get(spa.obo.response).body.valid
    /\ Apply(LAMBDA s : oboJsonThen(s, Get(s.obo.response).body.data), lock)

OboJsonRejected(lock) ==
    /\ spa.obo.pc = "awaitJson"
    /\ ~Get(spa.obo.response).body.valid
    /\ Apply(LAMBDA s : oboCatch(s, JsonSyntaxError), lock)

\* Variant: the button and the Enter key stay active during a search.
ClickSearch_NotDisabled(lock) ==
    \E account \in MaybeAccounts :
        Apply(LAMBDA s : handleAISearch(s, account), lock)

\* Search button (disabled={searchLoading}) or Enter (&& !searchLoading).
ClickSearch(lock) ==
    /\ ~spa.home.searchLoading
    /\ \E account \in MaybeAccounts :
           Apply(LAMBDA s : handleAISearch(s, account), lock)

SearchTokenAcquired(lock) ==
    /\ spa.search.pc = "awaitToken"
    /\ \E accessToken \in AccessTokens :
           Apply(LAMBDA s : searchTokenResolved(s, accessToken), lock)

SearchTokenAcquireFailed(lock) ==
    /\ spa.search.pc = "awaitToken"
    /\ \E error \in AcquireErrors :
           Apply(LAMBDA s : searchCatch(s, error), lock)

SearchFetchResolved(lock) ==
    /\ spa.search.pc = "awaitFetch"
    /\ \E response \in Responses :
           Apply(LAMBDA s : searchFetchThen(s, response), lock)

SearchFetchRejected(lock) ==
    /\ spa.search.pc = "awaitFetch"
    /\ \E error \in NetworkErrors :
           Apply(LAMBDA s : searchCatch(s, error), lock)

SearchJsonResolved(lock) ==
    /\ spa.search.pc = "awaitJson"
    /\ Get(spa.search.response).body.valid
    /\ Apply(LAMBDA s : searchJsonThen(s, Get(s.search.response).body.data), lock)

SearchJsonRejected(lock) ==
    /\ spa.search.pc = "awaitJson"
    /\ ~Get(spa.search.response).body.valid
    /\ Apply(LAMBDA s : searchCatch(s, JsonSyntaxError), lock)

\* {searchResults && ... {searchResults.search_token_info && <Button ...>}}
ClickCompareTokens(lock) ==
    /\ spa.home.searchResults # None
    /\ Get(spa.home.searchResults).t = "object"
    /\ Get(spa.home.searchResults).search_token_info
    /\ Apply(LAMBDA s : compareTokens(s), lock)

PageStep(lock) ==
    \/ TypeQuery(lock)
    \/ ClickRequestAccessToken(lock)
    \/ TokenAcquired(lock)
    \/ TokenAcquireFailed(lock)
    \/ ClickCallOboApi(lock)
    \/ OboTokenAcquired(lock)
    \/ OboTokenAcquireFailed(lock)
    \/ OboFetchResolved(lock)
    \/ OboFetchRejected(lock)
    \/ OboJsonResolved(lock)
    \/ OboJsonRejected(lock)
    \/ ClickSearch(lock)
    \/ SearchTokenAcquired(lock)
    \/ SearchTokenAcquireFailed(lock)
    \/ SearchFetchResolved(lock)
    \/ SearchFetchRejected(lock)
    \/ SearchJsonResolved(lock)
    \/ SearchJsonRejected(lock)
    \/ ClickCompareTokens(lock)

-----------------------------------------------------------------------------
(* The Python API (app.py), from its documented routes and the excerpts of *)
(* its code in the documentation.                                          *)

\* README of the API, "API Endpoints": the method each route accepts.
RouteMethod(path) ==
    CASE path = "/api/health" -> "GET"
      [] path = "/api/hello" -> "POST"
      [] path = "/api/search" -> "POST"
      [] path = "/api/search-simple" -> "POST"
      [] path = "/api/search-unified" -> "POST"
      [] OTHER -> "NONE"

Unset == None

\* Variant: the configuration holds no default key.
SEARCH_API_KEY_NoDefault(env) ==
    IF env.SEARCH_API_KEY = Unset THEN "" ELSE Get(env.SEARCH_API_KEY)

\* config.py: os.environ.get("SEARCH_API_KEY", "YOUR_API_KEY")
SEARCH_API_KEY(env) ==
    IF env.SEARCH_API_KEY = Unset THEN "YOUR_API_KEY" ELSE Get(env.SEARCH_API_KEY)

\* config.py: os.environ.get("SEARCH_AUTH_MODE", "OBO")
SEARCH_AUTH_MODE(env) ==
    IF env.SEARCH_AUTH_MODE = Unset THEN "OBO" ELSE Get(env.SEARCH_AUTH_MODE)

Environments ==
    [ SEARCH_API_KEY   : { Unset, Some(""), Some("search-key") },
      SEARCH_AUTH_MODE : { Unset, Some("OBO"), Some("API_KEY") } ]

\* A bearer token, by what a validation of it would find; aud is the
\* resource it was issued for.
IncomingTokens ==
    [ wellFormed : BOOLEAN, signature : BOOLEAN, issuer : BOOLEAN,
      aud : { "api", "other" }, unexpired : BOOLEAN ]

\* What the README of the API says is validated ("Token Validation").
PassesValidation(token) ==
    /\ token.wellFormed /\ token.signature /\ token.issuer
    /\ token.aud = "api" /\ token.unexpired

\* jwt.decode(token, options={"verify_signature": False}, algorithms=["RS256"]):
\* TRUE when it returns the claims, FALSE when it raises.
jwt_decode(token) == token.wellFormed

GRAPH_SCOPES == <<"https://graph.microsoft.com/.default">>
SEARCH_SCOPE == <<"https://search.azure.com/.default">>

\* The token acquire_token_on_behalf_of returns for the scopes asked.
OboToken(scopes) ==
    [ wellFormed |-> TRUE, signature |-> TRUE, issuer |-> TRUE,
      aud |-> IF scopes = SEARCH_SCOPE THEN "search" ELSE "graph",
      unexpired |-> TRUE ]

InitialApiRequest ==
    [ pc |-> "idle", path |-> "", token |-> None, exchanges |-> 0,
      exchangeScopes |-> << >>, oboToken |-> None, calls |-> << >>,
      auth_method |-> "", response |-> None ]

\* What the API answers when the incoming token cannot be decoded: the
\* excerpts do not show it; the status is the one the design names for a
\* claims-validation failure.
UndecodableTokenStatus == 401

\* Variant: every answer is sent with status 200, its error in the body.
Respond_AlwaysSuccess(r, status, error, authentication) ==
    [ r EXCEPT !.pc = "done",
               !.response = Some([ status |-> 200, error |-> error,
                                   authentication |-> authentication ]) ]

Respond(r, status, error, authentication) ==
    [ r EXCEPT !.pc = "done",
               !.response = Some([ status |-> status, error |-> error,
                                   authentication |-> authentication ]) ]

\* msal_app.acquire_token_on_behalf_of(user_assertion=token, scopes=scopes)
acquire_token_on_behalf_of(r, scopes) ==
    [ r EXCEPT !.pc = "awaitExchange", !.exchanges = @ + 1, !.exchangeScopes = scopes ]

\* requests.get / requests.post to a downstream service.
DownstreamCall(r, target, headers, nextPc) ==
    [ r EXCEPT !.pc = nextPc,
               !.calls = Append(@, [ target |-> target, headers |-> headers ]) ]

Headers(authorization, apiKey, querySource) ==
    [ Authorization |-> authorization,
      api_key |-> apiKey,
      x_ms_query_source_authorization |-> querySource ]

\* AUTHFLOW_SUMMARY "API Key Mode": the headers of the search request.
apiKeyHeaders(r, env) == Headers(None, Some(SEARCH_API_KEY(env)), None)

\* AUTHFLOW_SUMMARY / QUERY-TIME_ACCESS_CONTROL "Headers Configuration".
oboSearchHeaders(search_access_token) ==
    Headers(Some(<<"Bearer ", search_access_token>>), None, Some(search_access_token))

\* Variant: the exchange is made whatever the mode.
searchCredential_AlwaysExchange(r, env) ==
    acquire_token_on_behalf_of(r, SEARCH_SCOPE)

\* if SEARCH_AUTH_MODE == "OBO": ... else: ... (unified search)
searchCredential(r, env) ==
    IF SEARCH_AUTH_MODE(env) = "OBO"
    THEN acquire_token_on_behalf_of(r, SEARCH_SCOPE)
    ELSE IF SEARCH_API_KEY(env) = ""
         THEN Respond(r, 500, <<"SEARCH_API_KEY not configured">>, "")
         ELSE DownstreamCall([r EXCEPT !.auth_method = "API Key"],
                             "search", apiKeyHeaders(r, env), "awaitSearch")

\* The handler up to its first outgoing call: the token is taken from the
\* Authorization header and decoded, then the route's flow starts.
apiHandle(r, env, path, token) ==
    LET req == [ InitialApiRequest EXCEPT !.path = path, !.token = token ]
    IN  IF token = None \/ ~jwt_decode(Get(token))
        THEN Respond(req, UndecodableTokenStatus, <<"invalid token">>, "")
        ELSE IF path = "/api/hello"
             THEN acquire_token_on_behalf_of(req, GRAPH_SCOPES)
             ELSE searchCredential(req, env)

\* Variant: the search request's query-source header is given the incoming
\* user token.
apiExchanged_UserTokenInHeader(r, result) ==
    IF r.path = "/api/hello"
    THEN IF result # None
         THEN DownstreamCall([r EXCEPT !.oboToken = result], "graph/me",
                             Headers(Some(<<"Bearer ", Get(result)>>), None, None),
                             "awaitGraphMe")
         ELSE Respond(r, 500, <<"OBO token acquisition failed">>, "")
    ELSE IF result = None
         THEN Respond(r, 500, <<"OBO token acquisition failed">>, "")
         ELSE DownstreamCall([r EXCEPT !.oboToken = result, !.auth_method = "OBO Flow"],
                             "search",
                             Headers(Some(<<"Bearer ", Get(result)>>), None, r.token),
                             "awaitSearch")

\* The OBO exchange returned.
apiExchanged(r, result) ==
    IF r.path = "/api/hello"
    THEN IF result # None
         THEN DownstreamCall([r EXCEPT !.oboToken = result], "graph/me",
                             Headers(Some(<<"Bearer ", Get(result)>>), None, None),
                             "awaitGraphMe")
         ELSE Respond(r, 500, <<"OBO token acquisition failed">>, "")
    ELSE IF result = None
         THEN Respond(r, 500, <<"OBO token acquisition failed">>, "")
         ELSE DownstreamCall([r EXCEPT !.oboToken = result, !.auth_method = "OBO Flow"],
                             "search", oboSearchHeaders(Get(result)), "awaitSearch")

\* Graph /me returned: /me/memberOf is requested with the same token.
apiGraphMe(r) ==
    DownstreamCall(r, "graph/me/memberOf",
                   Headers(Some(<<"Bearer ", Get(r.oboToken)>>), None, None),
                   "awaitGraphGroups")

\* Variant: the answer is always labelled with the OBO flow.
apiFinish_FixedLabel(r) == Respond(r, 200, << >>, "OBO Flow")

\* The last downstream call returned: the API answers.
apiFinish(r) == Respond(r, 200, << >>, r.auth_method)

-----------------------------------------------------------------------------
InitialApi ==
    [ env |-> [ SEARCH_API_KEY |-> Unset, SEARCH_AUTH_MODE |-> Unset ],
      req |-> InitialApiRequest ]

Init ==
    /\ spa = InitialSpa
    /\ twin = InitialSpa
    /\ api = InitialApi

-----------------------------------------------------------------------------
(* Steps of the Python API: one request at a time, any bearer token.       *)

MaybeIncoming == { None } \cup { Some(t) : t \in IncomingTokens }

ApiRequest ==
    /\ api.req.pc \in { "idle", "done" }
    /\ \E path \in { "/api/hello", "/api/search-unified" }, token \in MaybeIncoming :
           api' = [ api EXCEPT !.req = apiHandle(api.req, api.env, path, token) ]
    /\ UNCHANGED <<spa, twin>>

ApiExchangeReturns ==
    /\ api.req.pc = "awaitExchange"
    /\ \E result \in { None, Some(OboToken(api.req.exchangeScopes)) } :
           api' = [ api EXCEPT !.req = apiExchanged(api.req, result) ]
    /\ UNCHANGED <<spa, twin>>

ApiGraphMeReturns ==
    /\ api.req.pc = "awaitGraphMe"
    /\ api' = [ api EXCEPT !.req = apiGraphMe(api.req) ]
    /\ UNCHANGED <<spa, twin>>

ApiDownstreamReturns ==
    /\ api.req.pc \in { "awaitGraphGroups", "awaitSearch" }
    /\ api' = [ api EXCEPT !.req = apiFinish(api.req) ]
    /\ UNCHANGED <<spa, twin>>

ApiNext ==
    \/ ApiRequest
    \/ ApiExchangeReturns
    \/ ApiGraphMeReturns
    \/ ApiDownstreamReturns

\* The API process starts with any environment.
ApiInit ==
    /\ spa = InitialSpa
    /\ twin = InitialSpa
    /\ \E env \in Environments : api = [ env |-> env, req |-> InitialApiRequest ]

ApiSpec == ApiInit /\ [][ApiNext]_vars

Next == PageStep(FALSE)

Spec == Init /\ [][Next]_vars

-----------------------------------------------------------------------------
(* The page with its promises' callbacks scheduled: once a promise of      *)
(* acquireTokenSilent or response.json() can settle, its continuation      *)
(* runs.  Nothing makes an endpoint answer a request: the steps that       *)
(* settle fetch carry no fairness.                                         *)
LiveSpec ==
    /\ Init /\ [][Next]_vars
    /\ WF_vars(TokenAcquired(FALSE) \/ TokenAcquireFailed(FALSE))
    /\ WF_vars(OboTokenAcquired(FALSE) \/ OboTokenAcquireFailed(FALSE))
    /\ WF_vars(OboJsonResolved(FALSE) \/ OboJsonRejected(FALSE))
    /\ WF_vars(SearchTokenAcquired(FALSE) \/ SearchTokenAcquireFailed(FALSE))
    /\ WF_vars(SearchJsonResolved(FALSE) \/ SearchJsonRejected(FALSE))

-----------------------------------------------------------------------------
(* The page with every promise settling: the callbacks are scheduled as in *)
(* LiveSpec and, besides, every request sent is answered or fails.         *)
SettleSpec ==
    /\ LiveSpec
    /\ WF_vars(OboFetchResolved(FALSE) \/ OboFetchRejected(FALSE))
    /\ WF_vars(SearchFetchResolved(FALSE) \/ SearchFetchRejected(FALSE))

-----------------------------------------------------------------------------
(* Two pages given the same clicks, tokens and responses; the claims       *)
(* decoded by parseJwt in the second one may be any.                       *)

\* handleRequestAccessToken alone, its promise resolved with any value.
TokenAcquiredRaw ==
    /\ spa.token.pc = "awaitToken"
    /\ \E accessToken \in RawTokens :
           Apply(LAMBDA s : tokenThen(s, accessToken), FALSE)

ParseNext ==
    \/ ClickRequestAccessToken(FALSE)
    \/ TokenAcquiredRaw
    \/ TokenAcquireFailed(FALSE)

ParseSpec == Init /\ [][ParseNext]_vars

-----------------------------------------------------------------------------
MaybeClaims == { None, Some("claimsA"), Some("claimsB") }

TwinDecodes ==
    /\ \E claims \in MaybeClaims :
           /\ claims # twin.home.accessTokenClaims
           /\ twin' = [ twin EXCEPT !.home.accessTokenClaims = claims ]
    /\ UNCHANGED <<spa, api>>

TwinInit ==
    /\ spa = InitialSpa
    /\ \E claims \in MaybeClaims :
           twin = [ InitialSpa EXCEPT !.home.accessTokenClaims = claims ]
    /\ api = InitialApi

TwinNext == PageStep(TRUE) \/ TwinDecodes

TwinSpec == TwinInit /\ [][TwinNext]_vars

-----------------------------------------------------------------------------
(* Properties.                                                             *)

\* The runs that call the Python API.
ApiRuns == { spa.obo, spa.search }

\* The error the page shows for a run.
ShownError(run) == IF run = spa.obo THEN spa.home.oboError ELSE spa.home.searchError

\* A run that ended because acquireTokenSilent rejected.
AcquireFailed(run) ==
    run.pc = "idle" /\ run.acquires = 1 /\ run.accessToken = None /\ run.outcome = "error"

C2_BearerIsTokenObtained ==
    \A run \in ApiRuns :
        run.request # None =>
            /\ run.accessToken \in { Some(t) : t \in AccessTokens }
            /\ Get(run.request).Authorization = <<"Bearer ">> \o Get(run.accessToken)
            /\ Get(run.request).url[1] = PYTHON_API_CONFIG.baseUrl

C2_Witness ==
    /\ spa.obo.request # None /\ spa.search.request # None
    /\ spa.obo.accessToken # spa.search.accessToken

\* C3: the request callPythonOboApi issues to /api/hello uses the method the
\* API's route accepts (POST).
C3_HelloMethodMatchesRoute ==
    spa.obo.request # None =>
        Get(spa.obo.request).method = RouteMethod(Get(spa.obo.request).url[2])

\* A run failed and the failure it was given carries the consent code: in
\* the error that was caught, or in the error field of a non-2xx response.
ConsentFailure(run) ==
    /\ run.pc = "idle" /\ run.outcome \in { "error", "failed" }
    /\ \/ run.caught # None /\ includes(Get(run.caught), ConsentCode)
       \/ /\ run.response # None
          /\ ~ok(Get(run.response))
          /\ Get(run.response).body.valid
          /\ Get(run.response).body.data.error # NoField
          /\ includes(Get(Get(run.response).body.data.error), ConsentCode)

ConsentText(run) == IF run = spa.obo THEN OboConsentText ELSE SearchConsentText

\* C4: whenever an OBO call or a search fails because consent is required,
\* the error shown is the consent guidance text, on every path the failure
\* takes (token acquisition error, non-2xx response, thrown exception).
C4_ConsentGuidanceOnEveryPath ==
    \A run \in ApiRuns :
        ConsentFailure(run) => ShownError(run) = Some(ConsentText(run))

\* C5: within one run of a handler, acquireTokenSilent is called at most
\* once and fetch at most once, whatever the failure.
C5_NoRetry ==
    \A run \in { spa.token, spa.obo, spa.search } :
        run.acquires <= 1 /\ run.fetches <= 1

C5_Witness ==
    /\ AcquireFailed(spa.search)
    /\ spa.home.searchError = Some(SearchConsentText)
    /\ spa.obo.outcome = "error" /\ spa.obo.fetches = 1 /\ spa.obo.acquires = 1
    /\ spa.token.outcome = "error" /\ spa.token.acquires = 1

\* C6 (as claimed): each call carries a bounded timeout, so a run whose
\* request was sent completes, its loading flag back to false, even when the
\* endpoint never responds.
C6_EveryCallTimesOut ==
    /\ (spa.search.pc = "awaitFetch") ~> (~spa.home.searchLoading)
    /\ (spa.obo.pc = "awaitFetch") ~> (~spa.home.oboLoading)

\* C6 (amended): no call carries a timeout.  While a run waits for fetch its
\* loading flag is true, and the wait ends only by a step that settles the
\* fetch promise (a response, or a network error).
C6_WaitEndsOnlyWhenFetchSettles ==
    /\ [](spa.search.pc = "awaitFetch" => spa.home.searchLoading)
    /\ [](spa.obo.pc = "awaitFetch" => spa.home.oboLoading)
    /\ [][ (spa.search.pc = "awaitFetch" /\ spa'.search # spa.search)
              => (SearchFetchResolved(FALSE) \/ SearchFetchRejected(FALSE)) ]_vars
    /\ [][ (spa.obo.pc = "awaitFetch" /\ spa'.obo # spa.obo)
              => (OboFetchResolved(FALSE) \/ OboFetchRejected(FALSE)) ]_vars

C6_Witness ==
    /\ spa.search.pc = "awaitFetch" /\ spa.home.searchLoading
    /\ spa.obo.pc = "awaitFetch" /\ spa.home.oboLoading

\* C7: the Python API performs no OBO exchange and no downstream call for
\* an incoming token that fails validation (signature, issuer, audience,
\* expiry).
C7_ValidationPrecedesDownstream ==
    (api.req.exchanges > 0 \/ api.req.calls # << >>)
        => (api.req.token # None /\ PassesValidation(Get(api.req.token)))

\* C8: two pages that differ only in the claims parseJwt decoded make the
\* same calls: the same token acquisitions and the same requests (endpoint,
\* method, credential, body), and are at the same point of every handler.
C8_ClaimsNeverInfluenceCalls ==
    /\ twin.token = spa.token
    /\ twin.obo = spa.obo
    /\ twin.search = spa.search

C8_Witness ==
    /\ twin.home.accessTokenClaims # spa.home.accessTokenClaims
    /\ spa.home.accessTokenClaims # None
    /\ spa.token.acquires = 1
    /\ spa.obo.request # None
    /\ spa.search.request # None

\* The unified search endpoint runs in API key mode.
ApiKeyMode == SEARCH_AUTH_MODE(api.env) # "OBO"

\* C9: in API key mode a search request never invokes the OBO exchange.
C9_NoExchangeInApiKeyMode ==
    (api.req.path = "/api/search-unified" /\ ApiKeyMode)
        => (api.req.exchanges = 0 /\ api.req.oboToken = None)

C9_Witness ==
    /\ api.req.path = "/api/search-unified" /\ ApiKeyMode
    /\ api.req.pc = "done"
    /\ Len(api.req.calls) = 1 /\ api.req.calls[1].target = "search"
    /\ api.req.calls[1].headers.api_key # None

\* C10: no search request is sent to Azure AI Search without the
\* x-ms-query-source-authorization header, and in API key mode the header
\* carries the user's token.
C10_SearchCarriesUserToken ==
    \A i \in 1..Len(api.req.calls) :
        api.req.calls[i].target = "search" =>
            /\ api.req.calls[i].headers.x_ms_query_source_authorization # None
            /\ ApiKeyMode =>
                   api.req.calls[i].headers.x_ms_query_source_authorization = api.req.token

\* The request being handled is a search in OBO mode.
OboMode == SEARCH_AUTH_MODE(api.env) = "OBO"

\* The calls the request being handled made to Azure AI Search.
SearchCalls ==
    { api.req.calls[i] : i \in { j \in 1..Len(api.req.calls) : api.req.calls[j].target = "search" } }

\* C11: in OBO mode the request to Azure AI Search carries the token the
\* OBO exchange returned for the search scope, the same one as the Bearer
\* credential and in x-ms-query-source-authorization; the incoming user
\* token is never in that header.
C11_OboHeaderCarriesSearchToken ==
    OboMode =>
        \A call \in SearchCalls :
            /\ api.req.exchanges = 1
            /\ api.req.exchangeScopes = SEARCH_SCOPE
            /\ api.req.oboToken = Some(OboToken(SEARCH_SCOPE))
            /\ call.headers.Authorization = Some(<<"Bearer ", Get(api.req.oboToken)>>)
            /\ call.headers.x_ms_query_source_authorization = api.req.oboToken
            /\ call.headers.x_ms_query_source_authorization # api.req.token
            /\ Get(call.headers.x_ms_query_source_authorization).aud = "search"

C11_Witness ==
    /\ OboMode /\ api.req.pc = "done" /\ SearchCalls # {}
    /\ api.req.token # None /\ Get(api.req.token).aud = "api"

\* The unified search is asked in API key mode and the request carried a
\* token the API could decode.
ApiKeySearch ==
    /\ api.req.path = "/api/search-unified" /\ ApiKeyMode
    /\ api.req.pc # "idle"
    /\ api.req.token # None /\ jwt_decode(Get(api.req.token))

NotConfiguredAnswer ==
    Some([ status |-> 500, error |-> <<"SEARCH_API_KEY not configured">>,
           authentication |-> "" ])

\* C12 (as claimed): in API key mode the search fails with "SEARCH_API_KEY
\* not configured", with no call to Azure AI Search, whenever the
\* SEARCH_API_KEY environment variable is not set.
C12_UnsetKeyIsNotConfigured ==
    (ApiKeySearch /\ api.env.SEARCH_API_KEY = Unset)
        => (api.req.response = NotConfiguredAnswer /\ api.req.calls = << >>)

\* C12 (amended): the search fails with "SEARCH_API_KEY not configured",
\* with no call made, exactly when the configured key is empty, which the
\* environment variable set to the empty string gives; with the variable
\* not set the configuration's default "YOUR_API_KEY" is the key and the
\* call to Azure AI Search is made with it.
C12_EmptyKeyIsNotConfigured ==
    ApiKeySearch =>
        /\ (api.env.SEARCH_API_KEY = Some(""))
              <=> (api.req.response = NotConfiguredAnswer)
        /\ (api.env.SEARCH_API_KEY = Some("")) => api.req.calls = << >>
        /\ (api.env.SEARCH_API_KEY = Unset) =>
              /\ Len(api.req.calls) = 1
              /\ api.req.calls[1].target = "search"
              /\ api.req.calls[1].headers.api_key = Some("YOUR_API_KEY")

C12_Witness ==
    /\ ApiKeySearch /\ api.env.SEARCH_API_KEY = Unset
    /\ api.req.pc = "done" /\ Len(api.req.calls) = 1

\* The request was answered and its token was one the API could decode.
AnsweredDecoded ==
    /\ api.req.pc = "done"
    /\ api.req.token # None /\ jwt_decode(Get(api.req.token))

ExchangeFailed == api.req.exchanges = 1 /\ api.req.oboToken = None

AnswerLabel ==
    IF api.req.response = None THEN "" ELSE Get(api.req.response).authentication

\* C14: the authentication kind reported with a search result is the
\* credential the search was made with: "OBO Flow" for the token of the OBO
\* exchange, "API Key" for the configured key; a successful search carries
\* one of the two labels, the one of the configured mode.
C14_LabelMatchesCredential ==
    /\ AnswerLabel = "OBO Flow" =>
          /\ api.req.path = "/api/search-unified" /\ OboMode
          /\ api.req.exchanges = 1 /\ SearchCalls # {}
          /\ \A call \in SearchCalls :
                 /\ call.headers.Authorization = Some(<<"Bearer ", Get(api.req.oboToken)>>)
                 /\ call.headers.api_key = None
    /\ AnswerLabel = "API Key" =>
          /\ api.req.path = "/api/search-unified" /\ ApiKeyMode
          /\ api.req.exchanges = 0 /\ SearchCalls # {}
          /\ \A call \in SearchCalls :
                 /\ call.headers.api_key = Some(SEARCH_API_KEY(api.env))
                 /\ call.headers.Authorization = None
    /\ (api.req.pc = "done" /\ SearchCalls # {}) =>
          AnswerLabel = IF OboMode THEN "OBO Flow" ELSE "API Key"

C14_Witness ==
    /\ api.req.pc = "done" /\ AnswerLabel = "API Key"
    /\ api.env.SEARCH_AUTH_MODE = Some("API_KEY")
    /\ api.env.SEARCH_API_KEY = Some("search-key")

\* A run that ended on a response whose status is not 2xx.
EndedOnNon2xx(run) ==
    run.pc = "idle" /\ run.response # None /\ ~ok(Get(run.response))

\* The text of the error a response's body reports, empty when the body is
\* not a JSON object with an error field.
BodyErrorText(response) ==
    IF response.body.valid /\ response.body.data.t = "object"
          /\ response.body.data.error # NoField
    THEN Get(response.body.data.error)
    ELSE << >>

\* C15 (as claimed): a non-2xx response becomes an error that holds both
\* the response's status and its body, in callPythonOboApi and in
\* handleAISearch.
C15_ErrorCapturesStatusAndBody ==
    \A run \in ApiRuns :
        EndedOnNon2xx(run) =>
            /\ ShownError(run) # None
            /\ includes(Get(ShownError(run)), StatusDigits(Get(run.response).status))
            /\ \A i \in 1..Len(BodyErrorText(Get(run.response))) :
                   includes(Get(ShownError(run)), BodyErrorText(Get(run.response))[i])

\* C15 (amended): callPythonOboApi turns a non-2xx response into an error
\* whose message is "HTTP <status>: <statusText>", the body unread;
\* handleAISearch shows the error field of the body (or "Failed to perform
\* search"), or the exception of reading the body, the status unrecorded.
C15_ErrorCapturesStatusOrBody ==
    /\ EndedOnNon2xx(spa.obo) =>
          /\ spa.obo.outcome = "error"
          /\ spa.home.oboResponse = None
          /\ spa.home.oboError =
                 Some(<<"HTTP", StatusDigits(Get(spa.obo.response).status), ":",
                        Get(spa.obo.response).statusText>>)
    /\ EndedOnNon2xx(spa.search) =>
          LET body == Get(spa.search.response).body
          IN  /\ spa.home.searchResults = None
              /\ spa.home.searchError =
                     Some(IF ~body.valid THEN JsonSyntaxError
                          ELSE IF body.data.t = "null" THEN NullPropertyError
                          ELSE IF BodyErrorText(Get(spa.search.response)) # << >>
                               THEN BodyErrorText(Get(spa.search.response))
                               ELSE FailedSearchMessage)

C15_Witness ==
    /\ EndedOnNon2xx(spa.obo) /\ EndedOnNon2xx(spa.search)
    /\ BodyErrorText(Get(spa.obo.response)) # << >>
    /\ BodyErrorText(Get(spa.search.response)) # << >>
    /\ Get(spa.search.response).status = 500

\* The authentication rejections among the status codes.
IsAuthRejection(response) == response.status \in { 401, 403 }

\* Where handleAISearch ends when its fetch resolves with a response.
searchSettled(s, response) ==
    IF response.body.valid
    THEN searchJsonThen(searchFetchThen(s, response), response.body.data)
    ELSE searchCatch(searchFetchThen(s, response), JsonSyntaxError)

\* The kind of outcome a run of the caller would have had on a response.
OutcomeOn(run, response) ==
    IF run = spa.obo
    THEN oboFetchThen(spa, response).obo.outcome
    ELSE searchSettled(spa, response).search.outcome

\* C16 (as claimed): a 401 or 403 response yields an outcome whose kind no
\* other non-2xx response yields.
C16_AuthRejectionIsDistinct ==
    \A run \in ApiRuns :
        (EndedOnNon2xx(run) /\ IsAuthRejection(Get(run.response))) =>
            \A other \in Responses :
                (~ok(other) /\ ~IsAuthRejection(other))
                    => OutcomeOn(run, other) # run.outcome

\* C16 (amended): a 401 or 403 response yields the outcome of any failure.
\* callPythonOboApi throws the generic Error for every non-2xx status, the
\* status being in its message text only; handleAISearch's outcome is set
\* by the body alone, whatever the status.
C16_RejectionIsAGenericError ==
    /\ EndedOnNon2xx(spa.obo) =>
          /\ spa.obo.outcome = "error"
          /\ spa.obo.caught = Some(httpErrorMessage(Get(spa.obo.response)))
    /\ EndedOnNon2xx(spa.search) =>
          LET body == Get(spa.search.response).body
          IN  spa.search.outcome =
                  IF body.valid /\ body.data.t = "object" THEN "failed" ELSE "error"
    /\ \A run \in ApiRuns : run.outcome \in { "none", "ok", "noAccount", "noQuery", "error", "failed" }

C16_Witness ==
    /\ EndedOnNon2xx(spa.obo) /\ IsAuthRejection(Get(spa.obo.response))
    /\ EndedOnNon2xx(spa.search) /\ IsAuthRejection(Get(spa.search.response))
    /\ spa.obo.outcome = "error" /\ spa.search.outcome = "error"

\* The run of handleRequestAccessToken got past acquireTokenSilent.
TokenReceived == spa.token.accessToken # None

\* The second segment of a token exists and decodes to a JSON value.
PayloadDecodes(token) ==
    /\ Len(token) >= 2
    /\ SegInfo(token[2]).b64 /\ SegInfo(token[2]).utf8 /\ SegInfo(token[2]).json

\* C17: parseJwt never raises: whatever it is given, decodable or not, it
\* returns the claims or null, and the callback that called it completes.
C17_ParseJwtNeverRaises ==
    TokenReceived =>
        /\ parseJwt(Get(spa.token.accessToken)).completion = "return"
        /\ spa.token.pc = "idle" /\ spa.token.outcome = "ok"
        /\ ~spa.home.loading
        /\ spa.home.accessTokenClaims = parseJwt(Get(spa.token.accessToken)).value

C17_Witness ==
    /\ TokenReceived /\ spa.token.outcome = "ok"
    /\ Get(spa.token.accessToken) = <<"hdr", "!", "sig">>
    /\ spa.home.accessTokenClaims = None

\* C18 (as claimed): a token whose segment count is not exactly three, or
\* whose payload encoding is invalid, never yields a claims object.
C18_RejectsNotThreeSegments ==
    (TokenReceived /\ (Len(Get(spa.token.accessToken)) # 3
                          \/ ~PayloadDecodes(Get(spa.token.accessToken))))
        => spa.home.accessTokenClaims = None

\* C18 (amended): parseJwt yields null exactly when the token has no second
\* segment or that segment does not decode; the number of segments is not
\* checked, and a token of two, or of four, segments whose second segment
\* decodes yields that segment's value as claims.
C18_RejectsUndecodablePayloadOnly ==
    TokenReceived =>
        LET token == Get(spa.token.accessToken)
        IN  /\ (spa.home.accessTokenClaims = None) <=> ~PayloadDecodes(token)
            /\ PayloadDecodes(token) =>
                  spa.home.accessTokenClaims = Some(SegInfo(token[2]).value)

C18_Witness ==
    /\ TokenReceived
    /\ Get(spa.token.accessToken) = <<"hdr", "pA", "sig", "sig">>
    /\ spa.home.accessTokenClaims = Some("claimsA")

\* The token received decodes and its expiry is earlier than now.
ExpiredTokenReceived ==
    /\ TokenReceived
    /\ PayloadDecodes(Get(spa.token.accessToken))
    /\ SegInfo(Get(spa.token.accessToken)[2]).expired

\* C19 (as claimed): the claims of an expired token are never returned or
\* displayed.
C19_RejectsExpired ==
    ExpiredTokenReceived => spa.home.accessTokenClaims = None

\* C19 (amended): parseJwt does not look at the expiry; the claims of an
\* expired token are returned and displayed as those of any token.
C19_ExpiryIsNotChecked ==
    ExpiredTokenReceived =>
        /\ spa.token.outcome = "ok"
        /\ spa.home.accessTokenClaims =
               Some(SegInfo(Get(spa.token.accessToken)[2]).value)

C19_Witness ==
    /\ ExpiredTokenReceived
    /\ Get(spa.token.accessToken) = <<"hdr", "pOld", "sig">>
    /\ spa.home.accessTokenClaims = Some("claimsOld")

\* C20: every access token the page acquires to call the Python API is
\* requested with the API's scope, api://<api-client-id>/access_as_user,
\* never with the Microsoft Graph scopes of the login, at the three places
\* that acquire one.
C20_AcquiresWithApiScope ==
    \A run \in { spa.token, spa.obo, spa.search } :
        run.acquires > 0 =>
            /\ run.acquireScopes = <<"api://<YOUR_API_CLIENT_ID>/access_as_user">>
            /\ run.acquireScopes = <<PYTHON_API_CONFIG.scope>>
            /\ run.acquireScopes # loginRequest.scopes

C20_Witness ==
    /\ spa.token.acquires = 1 /\ spa.obo.acquires = 1 /\ spa.search.acquires = 1
    /\ spa.token.outcome = "ok" /\ spa.obo.request # None /\ spa.search.request # None

\* C21: no credential is kept or shared by the page's state.  A run sends
\* a request only with the token of its own acquireTokenSilent call, and no
\* state variable of Home holds a raw access token or a header made of one:
\* they hold decoded claims, parsed response bodies and error messages.
C21_NoCredentialKeptInState ==
    /\ \A run \in { spa.obo, spa.search } :
           run.request # None => (run.acquires = 1 /\ run.accessToken # None)
    /\ spa.token.accessToken # None => spa.token.acquires = 1
    /\ \A t \in AccessTokens :
           /\ spa.home.oboError \notin { Some(t), Some(bearer(t)) }
           /\ spa.home.searchError \notin { Some(t), Some(bearer(t)) }
    /\ spa.home.accessTokenClaims \in
           { None } \cup { Some(SegInfo(t[2]).value) : t \in AccessTokens }
    /\ \A v \in spa.home.oboResponse \cup spa.home.searchResults : v.t = "object"
    /\ \A v \in spa.home.searchTokenClaims : v.search \in BOOLEAN

C21_Witness ==
    /\ spa.token.accessToken # None /\ spa.home.accessTokenClaims # None
    /\ spa.obo.outcome = "ok" /\ spa.home.oboResponse # None
    /\ spa.search.outcome = "ok" /\ spa.home.searchResults # None
    /\ spa.obo.accessToken # spa.token.accessToken

\* C22: searchResults and searchError are never both non-null.
C22_ResultsAndErrorExclusive ==
    ~(spa.home.searchResults # None /\ spa.home.searchError # None)

\* A run of handleCallOboApi has finished.
OboFinished == spa.obo.pc = "idle" /\ spa.obo.outcome \in { "ok", "error" }

C24_LoadingEventuallyClears ==
    /\ spa.home.loading ~> ~spa.home.loading
    /\ spa.home.oboLoading ~> ~spa.home.oboLoading
    /\ spa.home.searchLoading ~> ~spa.home.searchLoading

C24_Witness ==
    /\ spa.search.caught = Some(NullPropertyError) /\ ~spa.home.searchLoading
    /\ spa.obo.caught = Some(JsonSyntaxError) /\ ~spa.home.oboLoading
    /\ spa.token.outcome = "error" /\ ~spa.home.loading

\* The runs of the three handlers, by the field of spa that holds each.
Handlers == { "token", "obo", "search" }

\* C25: at most one run of each operation is in flight.  A handler's
\* loading flag is true exactly while its run is in flight, a run is
\* started only when none of the same handler is in flight, and a result is
\* stored only by the run in flight, which is the last one started.
C25_OneRunAtATime ==
    /\ [](spa.token.pc # "idle" <=> spa.home.loading)
    /\ [](spa.obo.pc # "idle" <=> spa.home.oboLoading)
    /\ [](spa.search.pc # "idle" <=> spa.home.searchLoading)
    /\ [][ \A h \in Handlers :
               (spa'[h] # spa[h] /\ spa'[h].pc = "awaitToken") => spa[h].pc = "idle" ]_vars
    /\ [][ (spa'.home.searchResults # spa.home.searchResults
                /\ spa'.home.searchResults # None)
              => (spa.search.pc = "awaitJson" /\ spa'.search.request = spa.search.request) ]_vars
    /\ [][ (spa'.home.oboResponse # spa.home.oboResponse
                /\ spa'.home.oboResponse # None)
              => (spa.obo.pc = "awaitJson" /\ spa'.obo.request = spa.obo.request) ]_vars

C25_Witness ==
    /\ spa.token.pc = "awaitToken" /\ spa.home.loading
    /\ spa.obo.pc = "awaitJson" /\ spa.home.oboLoading
    /\ spa.search.pc = "awaitFetch" /\ spa.home.searchLoading

\* A run of handleAISearch has finished, its request was sent and the
\* response was not ok: a status outside 2xx, or a body that is not JSON.
SearchEndedNotOk ==
    /\ spa.search.pc = "idle" /\ spa.search.fetches = 1
    /\ spa.search.response # None
    /\ (~ok(Get(spa.search.response)) \/ ~Get(spa.search.response).body.valid)

\* C26: after such a run searchResults is null, searchLoading is false and
\* searchError is a non-empty message: the body's error field, else "Failed
\* to perform search", else the message of the exception.
C26_FailedSearchState ==
    SearchEndedNotOk =>
        LET response == Get(spa.search.response)
        IN  /\ spa.home.searchResults = None
            /\ ~spa.home.searchLoading
            /\ spa.home.searchError # None
            /\ Get(spa.home.searchError) # << >>
            /\ Get(spa.home.searchError) \in
                   { BodyErrorText(response), FailedSearchMessage,
                     JsonSyntaxError, NullPropertyError }
            /\ (BodyErrorText(response) # << >>)
                   => Get(spa.home.searchError) = BodyErrorText(response)

C26_Witness ==
    /\ SearchEndedNotOk
    /\ Get(spa.search.response).body.valid
    /\ Get(spa.search.response).body.data.error = Some(<< >>)
    /\ spa.home.searchError = Some(FailedSearchMessage)

\* The steps of each operation: its start and its continuations.
TokenSteps ==
    ClickRequestAccessToken(FALSE) \/ TokenAcquired(FALSE) \/ TokenAcquireFailed(FALSE)

OboSteps ==
    \/ ClickCallOboApi(FALSE)
    \/ OboTokenAcquired(FALSE) \/ OboTokenAcquireFailed(FALSE)
    \/ OboFetchResolved(FALSE) \/ OboFetchRejected(FALSE)
    \/ OboJsonResolved(FALSE) \/ OboJsonRejected(FALSE)

SearchSteps ==
    \/ ClickSearch(FALSE)
    \/ SearchTokenAcquired(FALSE) \/ SearchTokenAcquireFailed(FALSE)
    \/ SearchFetchResolved(FALSE) \/ SearchFetchRejected(FALSE)
    \/ SearchJsonResolved(FALSE) \/ SearchJsonRejected(FALSE)

\* C27: the three operations are isolated under any interleaving.  A step
\* of handleRequestAccessToken changes, of Home's state, only loading and
\* accessTokenClaims, a step of handleCallOboApi only oboLoading,
\* oboResponse and oboError, a step of handleAISearch only searchLoading,
\* searchResults and searchError; none touches the run of another.
C27_OperationsAreIsolated ==
    /\ [][ TokenSteps =>
              /\ [ spa'.home EXCEPT !.loading = spa.home.loading,
                                    !.accessTokenClaims = spa.home.accessTokenClaims ]
                     = spa.home
              /\ spa'.obo = spa.obo /\ spa'.search = spa.search ]_vars
    /\ [][ OboSteps =>
              /\ [ spa'.home EXCEPT !.oboLoading = spa.home.oboLoading,
                                    !.oboResponse = spa.home.oboResponse,
                                    !.oboError = spa.home.oboError ]
                     = spa.home
              /\ spa'.token = spa.token /\ spa'.search = spa.search ]_vars
    /\ [][ SearchSteps =>
              /\ [ spa'.home EXCEPT !.searchLoading = spa.home.searchLoading,
                                    !.searchResults = spa.home.searchResults,
                                    !.searchError = spa.home.searchError ]
                     = spa.home
              /\ spa'.token = spa.token /\ spa'.obo = spa.obo ]_vars

C27_Witness ==
    /\ spa.token.outcome = "error" /\ spa.token.acquires = 1
    /\ spa.obo.outcome = "ok" /\ spa.home.oboResponse # None
    /\ spa.search.outcome = "ok" /\ spa.home.searchResults # None
    /\ spa.home.oboError = None /\ spa.home.searchError = None

\* A query that is empty or made of white space only.
Blank(q) == \A i \in 1..Len(q) : q[i] = " "

\* C28: handleAISearch invoked with no active account, or with an empty or
\* white-space query, only sets searchError, the account being checked
\* first: it calls neither acquireTokenSilent nor fetch and leaves
\* searchLoading and searchResults as they were.
C28_ValidationOnlySetsError ==
    /\ [](spa.search.outcome \in { "noAccount", "noQuery" } =>
             /\ spa.search.pc = "idle"
             /\ spa.search.acquires = 0 /\ spa.search.fetches = 0
             /\ spa.search.request = None)
    /\ [][ (ClickSearch(FALSE) /\ spa'.search.account = None) =>
              /\ spa'.search.outcome = "noAccount"
              /\ spa'.search.acquires = 0 /\ spa'.search.fetches = 0
              /\ [ spa.home EXCEPT !.searchError = Some(NoActiveAccountSearchMessage) ]
                     = spa'.home ]_vars
    /\ [][ (ClickSearch(FALSE) /\ spa'.search.account # None
                /\ Blank(spa.home.searchQuery)) =>
              /\ spa'.search.outcome = "noQuery"
              /\ spa'.search.acquires = 0 /\ spa'.search.fetches = 0
              /\ [ spa.home EXCEPT !.searchError = Some(EnterQueryMessage) ]
                     = spa'.home ]_vars

C28_Witness ==
    /\ spa.search.outcome = "noQuery"
    /\ spa.home.searchQuery = <<" ">>
    /\ spa.home.searchError = Some(EnterQueryMessage)
    /\ spa.home.searchResults # None

\* C29: when acquireTokenSilent fails in handleRequestAccessToken,
\* accessTokenClaims keeps the value it had and loading returns to false;
\* with no active account the handler changes no state and makes no call.
C29_FailedTokenRequestKeepsClaims ==
    /\ [][ TokenAcquireFailed(FALSE) =>
              /\ spa'.home = [ spa.home EXCEPT !.loading = FALSE ]
              /\ spa'.token.outcome = "error" /\ spa'.token.pc = "idle" ]_vars
    /\ [][ (ClickRequestAccessToken(FALSE) /\ spa'.token.account = None) =>
              /\ spa'.home = spa.home
              /\ spa'.token.acquires = 0 /\ spa'.token.fetches = 0
              /\ spa'.token.pc = "idle"
              /\ spa'.obo = spa.obo /\ spa'.search = spa.search ]_vars

C29_Witness ==
    /\ spa.token.outcome = "error" /\ spa.token.acquires = 1
    /\ spa.home.accessTokenClaims # None
    /\ ~spa.home.loading

====
